---- MODULE Spec2Model ----
(***************************************************************************)
(* A model of temoa's MGA sequencer                                        *)
(* (temoa/extensions/modeling_to_generate_alternatives/mga_sequencer.py):  *)
(* MgaSequencer.__init__ and MgaSequencer.start, the two bounded queues,   *)
(* the pool of Worker processes, the instance generator of the vector      *)
(* manager and the table writer.                                           *)
(*                                                                         *)
(* The orchestrator's position in __init__/start is pc.  The vector        *)
(* manager, the solver and the writer are collaborators whose code is not  *)
(* in the file: every call to them is a nondeterministic choice over what  *)
(* the call can do (yield an instance or the wait marker, return True or   *)
(* False, raise).                                                          *)
(***************************************************************************)
EXTENDS Integers, Sequences, FiniteSets, TLC

----------------------------------------------------------------------------
(* Bounds of the model *)

\* the configured iteration limits explored are 0..MaxLimit
MaxLimit == 3

\* the generator yields at most MaxGen problem instances
MaxGen == 7

----------------------------------------------------------------------------
(* Program constants *)

\* num_workers = 6
num_workers == 6

\* work_queue = Queue(5)
WorkQueueSize == 5

\* result_queue = Queue(5)
ResultQueueSize == 5

Workers == 1..num_workers

\* the solver names __init__ tests for, and one it does not know
SolverNames == {"appsi_highs", "gurobi", "cbc", "other"}

----------------------------------------------------------------------------
(* Values that travel through the queues *)

\* a problem instance yielded by the instance generator
Instance(i) == [kind |-> "instance", id |-> i, status |-> "none"]

\* the generator's wait marker: the string 'waiting'
Waiting == [kind |-> "waiting", id |-> 0, status |-> "none"]

\* the pipeline sentinel: None on the work queue
Sentinel == [kind |-> "sentinel", id |-> 0, status |-> "none"]

\* what a worker puts on the result queue for instance i
Result(i, s) == [kind |-> "result", id |-> i, status |-> s]

\* next_result = None
NoResult == [kind |-> "none", id |-> 0, status |-> "none"]

\* no candidate held yet
NoInstance == [kind |-> "unset", id |-> 0, status |-> "none"]

\* one call of the table writer
WriterCall(op, it, i, s) == [op |-> op, iteration |-> it, inst |-> i, status |-> s]

VARIABLES
    pc,              \* the orchestrator's position in __init__ / start
    fault,           \* where the exception that ended the run was raised ("none" if none)
    config,          \* the TemoaConfig fields read: iteration_limit, solver_name, same_db
    con_open,        \* self.con: the sqlite connection is open
    opt_defined,     \* self.opt has been assigned
    options_defined, \* self.options has been assigned
    internal_stop,   \* self.internal_stop
    solve_count,     \* self.solve_count
    base_status,     \* termination condition of the base solve
    writer_log,      \* the calls made on self.writer, in order
    gen_log,         \* the result ids handed to vector_manager.process_results, in order
    gen_count,       \* how many instances the generator has yielded
    instance,        \* the local `instance` of the loop: the candidate held
    work_queue,      \* work_queue
    result_queue,    \* result_queue
    next_result,     \* the local `next_result`
    worker,          \* each worker process: its state and the item it holds
    sentinels_put,   \* how many None were put on the work queue
    sentinels_taken, \* how many None each worker has read
    joined,          \* how many workers have been joined
    work_closed,     \* work_queue.close() was called
    result_closed,   \* result_queue.close() was called
    finalized,       \* vector_manager.finalize_tracker() was called
    time_exceeded,   \* the wall clock has passed time_limit_hrs
    ext_stop,        \* internal_stop was set from outside the loop
    limit_stop,      \* internal_stop was set by the iteration-limit test
    gen_stop_seen,   \* stop_resolving() has returned True
    waited,          \* the generator has yielded the wait marker
    submitted,       \* the instance ids put on the work queue, in order
    faulted          \* the instance ids on which a worker's solve faulted

vars == <<pc, fault, config, con_open, opt_defined, options_defined, internal_stop,
          solve_count, base_status, writer_log, gen_log, gen_count, instance,
          work_queue, result_queue, next_result, worker, sentinels_put,
          sentinels_taken, joined, work_closed, result_closed, finalized,
          time_exceeded, ext_stop, limit_stop, gen_stop_seen, waited, submitted,
          faulted>>

\* the variables only the orchestrator's queue-free steps leave alone
queueVars == <<work_queue, result_queue, worker, sentinels_put, sentinels_taken,
               submitted, faulted>>
shutdownVars == <<joined, work_closed, result_closed, finalized>>
envVars == <<time_exceeded, ext_stop>>
ctorVars == <<config, con_open, opt_defined, options_defined>>
genVars == <<gen_log, gen_count, instance, gen_stop_seen, waited>>

----------------------------------------------------------------------------
(* Pure parts of the code *)

\* a constructor that has lost its precondition test
StoresNeverDiffer(cfg) == FALSE

\* if not config.input_database == config.output_database
StoresDiffer(cfg) == ~cfg.same_db

\* a constructor that makes the writer and forgets to clear
CtorClearsNothing == <<>>

\* self.writer = TableWriter(self.config); self.writer.clear_indexed_scenarios()
CtorWriterCalls == <<WriterCall("clear", 0, 0, "none")>>

\* if self.config.solver_name == ... : which names leave self.opt assigned
OptAssigned(name) == name \in {"appsi_highs", "gurobi", "cbc"}

\* ... and which leave self.options assigned
OptionsAssigned(name) == name \in {"gurobi", "cbc"}

\* the abort on an abnormal termination condition, as the commented-out lines
\* have it
AbortsUnlessOptimal(status) == status # "optimal"

\* # if status != pyomo_appsi.base.TerminationCondition.optimal: ... sys.exit(-1)
\* is commented out: no termination condition aborts the run
BaseSolveAborts(status) == FALSE

\* a put that leaves the candidate held in place
KeepsHeld(held, yielded) == held

\* work_queue.put(instance, block=False); instance = next(instance_generator)
NextAfterPut(held, yielded) == yielded

\* a key counted from the first non-base iteration
IterationKeyZeroBased(count) == count - 1

\* write_capacity_tables(M=instance, iteration=self.solve_count), called
\* before self.solve_count += 1
IterationKey(count) == count

\* a flag that follows the limit test
StopAssigned(flag, reached) == reached

\* if self.solve_count >= self.iteration_limit: self.internal_stop = True
StopAfterIngest(flag, reached) == IF reached THEN TRUE ELSE flag

\* a join that does not wait for the worker
JoinReturnsAtOnce(st) == TRUE

\* w.join() returns when the worker process has exited
JoinReturns(st) == st = "dead"

\* a loop test that reads the generator's stop predicate only
LoopIgnoresFlag(stop_resolving, stop_flag) == ~stop_resolving

\* while not vector_manager.stop_resolving() and not self.internal_stop
LoopContinues(stop_resolving, stop_flag) == ~stop_resolving /\ ~stop_flag

\* if self.solve_count >= self.iteration_limit
LimitReached(count, limit) == count >= limit

\* work_queue.put(instance, block=False) raises queue.Full
PutRaisesFull(q) == Len(q) >= WorkQueueSize

\* a result_queue.get() that returns at once, with the Empty branch taken
ResultGetNoWait(q) == IF q = <<>> THEN {NoResult} ELSE {Head(q)}

\* next_result = result_queue.get(): blocks while the queue is empty
ResultGet(q) == IF q = <<>> THEN {} ELSE {Head(q)}

\* an ingestion that passes over the results of faulted solves
IsOkResult(r) == r # NoResult /\ r.status = "ok"

\* if next_result is not None
IsResult(r) == r # NoResult

\* a shutdown that sends one None too many
OnePerWorkerAndOne == num_workers + 1

\* for w in workers: work_queue.put(None)
SentinelsToSend == num_workers

\* next(instance_generator): an instance, or 'waiting'
GenYields(n) == (IF n < MaxGen THEN {Instance(n + 1)} ELSE {}) \cup {Waiting}

----------------------------------------------------------------------------
(* The state before MgaSequencer(config) is called *)

Init ==
    /\ pc = "new"
    /\ fault = "none"
    /\ config \in [iteration_limit : 0..MaxLimit,
                   solver_name : SolverNames,
                   same_db : BOOLEAN]
    /\ con_open = FALSE
    /\ opt_defined = FALSE
    /\ options_defined = FALSE
    /\ internal_stop = FALSE
    /\ solve_count = 0
    /\ base_status = "none"
    /\ writer_log = <<>>
    /\ gen_log = <<>>
    /\ gen_count = 0
    /\ instance = NoInstance
    /\ work_queue = <<>>
    /\ result_queue = <<>>
    /\ next_result = NoResult
    /\ worker = [w \in Workers |-> [st |-> "unstarted", item |-> NoInstance]]
    /\ sentinels_put = 0
    /\ sentinels_taken = [w \in Workers |-> 0]
    /\ joined = 0
    /\ work_closed = FALSE
    /\ result_closed = FALSE
    /\ finalized = FALSE
    /\ time_exceeded = FALSE
    /\ ext_stop = FALSE
    /\ limit_stop = FALSE
    /\ gen_stop_seen = FALSE
    /\ waited = FALSE
    /\ submitted = <<>>
    /\ faulted = {}

\* an exception leaves __init__ or start at `site`
Raise(site) == pc' = "raised" /\ fault' = site

----------------------------------------------------------------------------
(* MgaSequencer.__init__ *)

\* raise NotImplementedError('MGA assumes input and output databases are same')
ConstructRejects ==
    /\ pc = "new"
    /\ StoresDiffer(config)
    /\ Raise("precondition")
    /\ UNCHANGED <<ctorVars, internal_stop, solve_count, base_status, writer_log,
                   genVars, next_result, queueVars, shutdownVars, envVars, limit_stop>>

\* the rest of __init__: connect, pick the solver, defaults, writer, clear
Construct ==
    /\ pc = "new"
    /\ ~StoresDiffer(config)
    /\ con_open' = TRUE
    /\ opt_defined' = OptAssigned(config.solver_name)
    /\ options_defined' = OptionsAssigned(config.solver_name)
    /\ internal_stop' = FALSE
    /\ solve_count' = 0
    /\ writer_log' = writer_log \o CtorWriterCalls
    /\ pc' = "constructed"
    /\ UNCHANGED <<fault, config, base_status, genVars, next_result, queueVars,
                   shutdownVars, envVars, limit_stop>>

----------------------------------------------------------------------------
(* MgaSequencer.start, up to the loop *)

\* self.opt.solve(instance) with self.opt never assigned: AttributeError
BaseSolveRaises ==
    /\ pc = "constructed"
    /\ ~opt_defined
    /\ Raise("base_solve")
    /\ UNCHANGED <<ctorVars, internal_stop, solve_count, base_status, writer_log,
                   genVars, next_result, queueVars, shutdownVars, envVars, limit_stop>>

\* 1. load data, 2. base solve, count it, record the 0-solve
BaseSolve ==
    /\ pc = "constructed"
    /\ opt_defined
    /\ \E s \in {"optimal", "other"} :
         /\ base_status' = s
         /\ IF BaseSolveAborts(s)
            THEN Raise("base_abort") /\ UNCHANGED writer_log
            ELSE /\ writer_log' = Append(writer_log, WriterCall("results", 0, 0, "none"))
                 /\ pc' = "relax"
                 /\ UNCHANGED fault
    /\ solve_count' = solve_count + 1
    /\ UNCHANGED <<ctorVars, internal_stop, genVars, next_result, queueVars,
                   shutdownVars, envVars, limit_stop>>

\* 3a, 3b, 4: the cost cap, the objective removed, the vector manager made
Relax ==
    /\ pc = "relax"
    /\ pc' = "pool_start"
    /\ UNCHANGED <<fault, ctorVars, internal_stop, solve_count, base_status, writer_log,
                   genVars, next_result, queueVars, shutdownVars, envVars, limit_stop>>

\* kwargs = {..., 'solver_options': self.options} with self.options never assigned
PoolStartRaises ==
    /\ pc = "pool_start"
    /\ ~options_defined
    /\ Raise("pool_start")
    /\ UNCHANGED <<ctorVars, internal_stop, solve_count, base_status, writer_log,
                   genVars, next_result, queueVars, shutdownVars, envVars, limit_stop>>

\* 5. the queues are made, the workers made and started
PoolStart ==
    /\ pc = "pool_start"
    /\ options_defined
    /\ work_queue' = <<>>
    /\ result_queue' = <<>>
    /\ worker' = [w \in Workers |-> [st |-> "idle", item |-> NoInstance]]
    /\ pc' = "gen_first"
    /\ UNCHANGED <<fault, ctorVars, internal_stop, solve_count, base_status, writer_log,
                   genVars, next_result, sentinels_put, sentinels_taken, submitted,
                   faulted, shutdownVars, envVars, limit_stop>>

\* instance_generator = ...; instance = next(instance_generator)
GenFirst ==
    /\ pc = "gen_first"
    /\ \E c \in GenYields(gen_count) :
         /\ instance' = c
         /\ gen_count' = IF c = Waiting THEN gen_count ELSE gen_count + 1
         /\ waited' = (waited \/ c = Waiting)
    /\ pc' = "test"
    /\ UNCHANGED <<fault, ctorVars, internal_stop, solve_count, base_status, writer_log,
                   gen_log, gen_stop_seen, next_result, queueVars, shutdownVars,
                   envVars, limit_stop>>

\* the first next(instance_generator) raises
GenFirstRaises ==
    /\ pc = "gen_first"
    /\ Raise("generator_first")
    /\ UNCHANGED <<ctorVars, internal_stop, solve_count, base_status, writer_log,
                   genVars, next_result, queueVars, shutdownVars, envVars, limit_stop>>

----------------------------------------------------------------------------
(* 6. The iterative solve loop *)

\* while not vector_manager.stop_resolving() and not self.internal_stop:
\* the generator's stop predicate returns either value
TestLoop ==
    /\ pc = "test"
    /\ \E stop \in BOOLEAN :
         /\ gen_stop_seen' = (gen_stop_seen \/ stop)
         /\ pc' = IF LoopContinues(stop, internal_stop) THEN "put" ELSE "shutdown"
    /\ UNCHANGED <<fault, ctorVars, internal_stop, solve_count, base_status, writer_log,
                   gen_log, gen_count, instance, waited, next_result, queueVars,
                   shutdownVars, envVars, limit_stop>>

\* the first try block: put the candidate if it is not 'waiting' and there is
\* room, then pull the next candidate; queue.Full is caught and passed
Submit ==
    /\ pc = "put"
    /\ IF instance = Waiting \/ PutRaisesFull(work_queue)
       THEN UNCHANGED <<work_queue, submitted, instance, gen_count, waited>>
       ELSE /\ work_queue' = Append(work_queue, instance)
            /\ submitted' = Append(submitted, instance.id)
            /\ \E c \in GenYields(gen_count) :
                 /\ instance' = NextAfterPut(instance, c)
                 /\ gen_count' = IF c = Waiting THEN gen_count ELSE gen_count + 1
                 /\ waited' = (waited \/ c = Waiting)
    /\ pc' = "get"
    /\ UNCHANGED <<fault, ctorVars, internal_stop, solve_count, base_status, writer_log,
                   gen_log, gen_stop_seen, next_result, result_queue, worker,
                   sentinels_put, sentinels_taken, faulted, shutdownVars, envVars,
                   limit_stop>>

\* the put succeeds and the next(instance_generator) after it raises
SubmitGenRaises ==
    /\ pc = "put"
    /\ instance # Waiting
    /\ ~PutRaisesFull(work_queue)
    /\ work_queue' = Append(work_queue, instance)
    /\ submitted' = Append(submitted, instance.id)
    /\ Raise("generator")
    /\ UNCHANGED <<ctorVars, internal_stop, solve_count, base_status, writer_log,
                   genVars, next_result, result_queue, worker, sentinels_put,
                   sentinels_taken, faulted, shutdownVars, envVars, limit_stop>>

\* the second try block: next_result = result_queue.get(), None on Empty;
\* then `if next_result is not None`
GetResult ==
    /\ pc = "get"
    /\ \E r \in ResultGet(result_queue) :
         /\ next_result' = r
         /\ result_queue' = IF r = NoResult THEN result_queue ELSE Tail(result_queue)
         /\ pc' = IF IsResult(r) THEN "ingest" ELSE "test"
    /\ UNCHANGED <<fault, ctorVars, internal_stop, solve_count, base_status, writer_log,
                   genVars, work_queue, worker, sentinels_put, sentinels_taken,
                   submitted, faulted, shutdownVars, envVars, limit_stop>>

\* vector_manager.process_results, self.process_solve_results (which writes the
\* capacity tables under iteration = self.solve_count), the count, the limit test
Ingest ==
    /\ pc = "ingest"
    /\ gen_log' = Append(gen_log, next_result.id)
    /\ writer_log' = Append(writer_log,
                            WriterCall("capacity", IterationKey(solve_count),
                                       next_result.id, next_result.status))
    /\ solve_count' = solve_count + 1
    /\ internal_stop' = StopAfterIngest(internal_stop,
                                        LimitReached(solve_count', config.iteration_limit))
    /\ limit_stop' = (limit_stop \/ LimitReached(solve_count', config.iteration_limit))
    /\ pc' = "test"
    /\ UNCHANGED <<fault, ctorVars, base_status, gen_count, instance, gen_stop_seen,
                   waited, next_result, queueVars, shutdownVars, envVars>>

\* vector_manager.process_results(M=next_result) raises
ProcessResultsRaises ==
    /\ pc = "ingest"
    /\ Raise("process_results")
    /\ UNCHANGED <<ctorVars, internal_stop, solve_count, base_status, writer_log,
                   genVars, next_result, queueVars, shutdownVars, envVars, limit_stop>>

\* self.writer.write_capacity_tables raises, after process_results returned
WriterRaises ==
    /\ pc = "ingest"
    /\ gen_log' = Append(gen_log, next_result.id)
    /\ Raise("writer")
    /\ UNCHANGED <<ctorVars, internal_stop, solve_count, base_status, writer_log,
                   gen_count, instance, gen_stop_seen, waited, next_result, queueVars,
                   shutdownVars, envVars, limit_stop>>

----------------------------------------------------------------------------
(* 7. Shut down the workers, 8. wrap up *)

\* for w in workers: work_queue.put(None) -- a blocking put
PutSentinel ==
    /\ pc = "shutdown"
    /\ Len(work_queue) < WorkQueueSize
    /\ work_queue' = Append(work_queue, Sentinel)
    /\ sentinels_put' = sentinels_put + 1
    /\ pc' = IF sentinels_put' = SentinelsToSend THEN "join" ELSE "shutdown"
    /\ UNCHANGED <<fault, ctorVars, internal_stop, solve_count, base_status, writer_log,
                   genVars, next_result, result_queue, worker, sentinels_taken,
                   submitted, faulted, shutdownVars, envVars, limit_stop>>

\* for w in workers: w.join() -- returns when that worker has exited
Join ==
    /\ pc = "join"
    /\ JoinReturns(worker[joined + 1].st)
    /\ joined' = joined + 1
    /\ pc' = IF joined' = num_workers THEN "close_work" ELSE "join"
    /\ UNCHANGED <<fault, ctorVars, internal_stop, solve_count, base_status, writer_log,
                   genVars, next_result, queueVars, work_closed, result_closed,
                   finalized, envVars, limit_stop>>

\* log_queue.close(); work_queue.close()
CloseWork ==
    /\ pc = "close_work"
    /\ work_closed' = TRUE
    /\ pc' = "close_result"
    /\ UNCHANGED <<fault, ctorVars, internal_stop, solve_count, base_status, writer_log,
                   genVars, next_result, queueVars, joined, result_closed, finalized,
                   envVars, limit_stop>>

\* result_queue.close()
CloseResult ==
    /\ pc = "close_result"
    /\ result_closed' = TRUE
    /\ pc' = "finalize"
    /\ UNCHANGED <<fault, ctorVars, internal_stop, solve_count, base_status, writer_log,
                   genVars, next_result, queueVars, joined, work_closed, finalized,
                   envVars, limit_stop>>

\* vector_manager.finalize_tracker()
Finalize ==
    /\ pc = "finalize"
    /\ finalized' = TRUE
    /\ pc' = "done"
    /\ UNCHANGED <<fault, ctorVars, internal_stop, solve_count, base_status, writer_log,
                   genVars, next_result, queueVars, joined, work_closed, result_closed,
                   envVars, limit_stop>>

----------------------------------------------------------------------------
(* A worker process: block-receive an item; stop on the sentinel; otherwise *)
(* solve it and send the outcome, a failure result if the solve faulted     *)

orchVars == <<pc, fault, ctorVars, internal_stop, solve_count, base_status, writer_log,
              genVars, next_result, sentinels_put, submitted, shutdownVars, envVars,
              limit_stop>>

WorkerGet(w) ==
    /\ worker[w].st = "idle"
    /\ work_queue # <<>>
    /\ work_queue' = Tail(work_queue)
    /\ IF Head(work_queue) = Sentinel
       THEN /\ worker' = [worker EXCEPT ![w] = [st |-> "dead", item |-> NoInstance]]
            /\ sentinels_taken' = [sentinels_taken EXCEPT ![w] = @ + 1]
       ELSE /\ worker' = [worker EXCEPT ![w] = [st |-> "solving",
                                                item |-> Head(work_queue)]]
            /\ UNCHANGED sentinels_taken
    /\ UNCHANGED <<orchVars, result_queue, faulted>>

WorkerSolve(w) ==
    /\ worker[w].st = "solving"
    /\ \E s \in {"ok", "failed"} :
         /\ worker' = [worker EXCEPT ![w] = [st |-> "sending",
                                             item |-> Result(worker[w].item.id, s)]]
         /\ faulted' = IF s = "failed" THEN faulted \cup {worker[w].item.id}
                       ELSE faulted
    /\ UNCHANGED <<orchVars, work_queue, result_queue, sentinels_taken>>

WorkerSend(w) ==
    /\ worker[w].st = "sending"
    /\ Len(result_queue) < ResultQueueSize
    /\ result_queue' = Append(result_queue, worker[w].item)
    /\ worker' = [worker EXCEPT ![w] = [st |-> "idle", item |-> NoInstance]]
    /\ UNCHANGED <<orchVars, work_queue, sentinels_taken, faulted>>

----------------------------------------------------------------------------
(* The environment of the loop *)

InLoopPcs == {"gen_first", "test", "put", "get", "ingest"}

InLoop == pc \in InLoopPcs

\* the wall clock passes self.time_limit_hrs
ClockPasses ==
    /\ InLoop
    /\ ~time_exceeded
    /\ time_exceeded' = TRUE
    /\ UNCHANGED <<pc, fault, ctorVars, internal_stop, solve_count, base_status,
                   writer_log, genVars, next_result, queueVars, shutdownVars,
                   ext_stop, limit_stop>>

\* self.internal_stop is set to True from outside the loop
ExternalStop ==
    /\ InLoop
    /\ ~ext_stop
    /\ ext_stop' = TRUE
    /\ internal_stop' = TRUE
    /\ UNCHANGED <<pc, fault, ctorVars, solve_count, base_status, writer_log, genVars,
                   next_result, queueVars, shutdownVars, time_exceeded, limit_stop>>

----------------------------------------------------------------------------

OrchestratorStep ==
    \/ ConstructRejects
    \/ Construct
    \/ BaseSolveRaises
    \/ BaseSolve
    \/ Relax
    \/ PoolStartRaises
    \/ PoolStart
    \/ GenFirst
    \/ GenFirstRaises
    \/ TestLoop
    \/ Submit
    \/ SubmitGenRaises
    \/ GetResult
    \/ Ingest
    \/ ProcessResultsRaises
    \/ WriterRaises
    \/ PutSentinel
    \/ Join
    \/ CloseWork
    \/ CloseResult
    \/ Finalize

WorkerStep == \E w \in Workers : WorkerGet(w) \/ WorkerSolve(w) \/ WorkerSend(w)

Next ==
    \/ OrchestratorStep
    \/ WorkerStep
    \/ ClockPasses
    \/ ExternalStop

Spec == Init /\ [][Next]_vars

----------------------------------------------------------------------------
(* The pipeline alone: a configuration that reaches the pool (the largest  *)
(* limit explored: a smaller one only ends the loop earlier, as the         *)
(* generator's stop predicate does), collaborators that do not raise, and   *)
(* no event from outside the loop                                           *)

InitPipeline ==
    /\ Init
    /\ config = [iteration_limit |-> MaxLimit, solver_name |-> "cbc", same_db |-> TRUE]

NextPipeline ==
    \/ Construct
    \/ BaseSolve
    \/ Relax
    \/ PoolStart
    \/ GenFirst
    \/ TestLoop
    \/ Submit
    \/ GetResult
    \/ Ingest
    \/ PutSentinel
    \/ Join
    \/ CloseWork
    \/ CloseResult
    \/ Finalize
    \/ WorkerStep

SpecPipeline == InitPipeline /\ [][NextPipeline]_vars

----------------------------------------------------------------------------
(* Quantities the properties are stated in *)

\* the non-base iterations the writer has recorded
NonBaseRecorded ==
    Cardinality({k \in DOMAIN writer_log : writer_log[k].op = "capacity"})

\* instances put on the work queue whose solve has not finished
InFlight ==
    Cardinality({k \in DOMAIN work_queue : work_queue[k].kind = "instance"})
    + Cardinality({w \in Workers : worker[w].st = "solving"})

\* the loop was left and every worker joined
ShutdownReturned == pc \in {"close_work", "close_result", "finalize", "done"}

\* the exception was raised inside the while loop
LoopFaults == {"generator", "process_results", "writer"}

----------------------------------------------------------------------------
(* Properties *)

\* C1: when the iteration-limit test has set internal_stop, the loop has
\* ingested at most iteration_limit results (for every limit, 0 included).
C1_AtMostLimitIngested ==
    limit_stop => Len(gen_log) <= config.iteration_limit

\* C2: with iteration limit 3 and a generator that never stops and never
\* waits (and no outside stop), when the shutdown protocol starts exactly 3
\* non-base iterations have been recorded: as many as the limit.
C2_ExactlyLimitRecorded ==
    (/\ pc = "shutdown" /\ sentinels_put = 0
     /\ config.iteration_limit = 3
     /\ ~gen_stop_seen /\ ~waited /\ ~ext_stop)
        => NonBaseRecorded = config.iteration_limit

\* C3: when the shutdown protocol has returned, exactly one sentinel per
\* worker was put, every worker has read exactly one, and no worker is alive.
C3_SentinelBroadcast ==
    ShutdownReturned =>
        /\ sentinels_put = num_workers
        /\ \A w \in Workers : sentinels_taken[w] = 1 /\ worker[w].st = "dead"

\* C3 witness: the shutdown has returned in a run that submitted work.
C3_Witness ==
    /\ pc = "close_work"
    /\ Len(submitted) >= 2
    /\ \A w \in Workers : worker[w].st = "dead"

\* C4: a run that has not ended (finalized, or ended by an exception) can
\* always take a further step of the orchestrator or of a worker: it never
\* blocks for good.
C4_NeverBlocksForever ==
    pc \in {"done", "raised"} \/ ENABLED (OrchestratorStep \/ WorkerStep)

\* C5: the instances in flight (submitted, not yet solved) never exceed the
\* capacity of the work queue.
C5_ChannelCapacity == InFlight <= WorkQueueSize

\* C5 witness: an instance is in flight while the loop waits for its result.
C5_Witness == pc = "get" /\ InFlight = 1 /\ Len(submitted) >= 2

\* C7: the loop's read of the result queue returns at once: whenever the
\* loop is at the read, the read can complete, a result being there or not.
C7_ReadReturnsAtOnce == pc = "get" => ENABLED GetResult

\* C8: a round that starts with the wall-clock limit exceeded is not run:
\* the loop test sends the run to the shutdown protocol.
C8_TimeLimitStopsLoop ==
    [][(pc = "test" /\ time_exceeded /\ pc' # "test") => pc' = "shutdown"]_vars

\* C9: when an exception raised inside the loop has left start, the shutdown
\* protocol has been run: one sentinel per worker was sent and no worker is
\* left alive.
C9_ShutdownOnException ==
    (pc = "raised" /\ fault \in LoopFaults) =>
        /\ sentinels_put = num_workers
        /\ \A w \in Workers : worker[w].st = "dead"

\* C10: at every round boundary, each instance on which a worker's solve
\* faulted has been recorded by the writer as a failed iteration, and every
\* recorded iteration, failed ones included, has been counted in solve_count.
C10_FaultRecorded ==
    pc = "test" =>
        /\ \A i \in faulted :
             \E k \in DOMAIN writer_log :
                /\ writer_log[k].op = "capacity"
                /\ writer_log[k].inst = i
                /\ writer_log[k].status = "failed"
        /\ solve_count = 1 + NonBaseRecorded

\* C10 witness: a failed iteration was recorded and the loop, still running,
\* has recorded the successful solve of an instance submitted after it.
C10_Witness ==
    /\ pc = "test"
    /\ \E k, m \in DOMAIN writer_log :
         /\ k < m
         /\ writer_log[k].op = "capacity" /\ writer_log[k].status = "failed"
         /\ writer_log[m].op = "capacity" /\ writer_log[m].status = "ok"
         /\ writer_log[k].inst < writer_log[m].inst

\* the writer's calls of one kind, by their place in writer_log
CallsOf(op) == {k \in DOMAIN writer_log : writer_log[k].op = op}

\* C11: with an input store different from the output store the constructor
\* fails before any effect: the run never leaves the constructor, no
\* connection is opened, nothing is cleared or written, no solve is made
\* and no worker is created.
C11_RejectsBeforeAnyEffect ==
    ~config.same_db =>
        /\ pc \in {"new", "raised"}
        /\ ~con_open
        /\ writer_log = <<>>
        /\ solve_count = 0 /\ base_status = "none"
        /\ \A w \in Workers : worker[w].st = "unstarted"

\* C11 witness: the constructor has raised on differing stores.
C11_Witness == pc = "raised" /\ fault = "precondition" /\ ~config.same_db

\* C12: in a run (the constructor has returned) the writer's clear was
\* called exactly once, and it is the first call made on the writer: it
\* comes before the base result and every iteration result, and no clear
\* follows a recorded result.
C12_ClearOnceAndFirst ==
    (pc # "new" /\ fault # "precondition") =>
        /\ Cardinality(CallsOf("clear")) = 1
        /\ writer_log[1].op = "clear"

\* C12 witness: the base result and two iteration results were recorded.
C12_Witness ==
    /\ Cardinality(CallsOf("results")) = 1
    /\ Cardinality(CallsOf("capacity")) >= 2

\* the candidate held is the wait marker, pulled after the last submitted
\* instance was put, and the result of that instance has been read since
ResultReadSinceWait ==
    /\ instance = Waiting
    /\ Len(submitted) >= 1
    /\ Len(gen_log) = Len(submitted)

\* C13: a round that starts holding the wait marker submits no instance;
\* and when a result has been read since the marker was pulled, the round
\* pulls the next candidate, so that it can hold an instance again (the
\* generator having one to give).
C13_WaitThenResume ==
    (pc = "put" /\ instance = Waiting) =>
        /\ ~ENABLED (Submit /\ submitted' # submitted)
        /\ (ResultReadSinceWait /\ gen_count < MaxGen)
              => ENABLED (Submit /\ instance' # Waiting)

\* the positions of the orchestrator after the loop has been left
StopPcs == {"shutdown", "join", "close_work", "close_result", "finalize", "done"}

\* C14: when a stopping flag is true at the loop test (internal_stop, set
\* from outside or by the iteration limit, or the generator's stop
\* predicate), the loop is left; after the loop is left no instance is
\* submitted and every put on the work channel is a sentinel; and no step
\* takes a solve in flight away from its worker: a solving worker goes on
\* solving or comes to send the result of the same instance.
C14_NoSubmitAfterStop ==
    [][ /\ (pc = "test" /\ pc' # pc /\ (internal_stop \/ gen_stop_seen'))
            => pc' = "shutdown"
        /\ pc \in StopPcs =>
              /\ pc' \in StopPcs
              /\ submitted' = submitted
              /\ Len(work_queue') > Len(work_queue)
                    => work_queue'[Len(work_queue')] = Sentinel
        /\ \A w \in Workers :
              worker[w].st = "solving" =>
                 \/ worker'[w] = worker[w]
                 \/ /\ worker'[w].st = "sending"
                    /\ worker'[w].item.id = worker[w].item.id
      ]_vars

C14_Witness ==
    /\ pc \in StopPcs
    /\ internal_stop
    /\ Len(submitted) >= 1
    /\ sentinels_put >= 1

\* C15: a channel is closed only after every worker has been joined and is
\* not alive, and the generator's finalize operation is invoked only after
\* both channels are closed.
C15_ShutdownOrder ==
    /\ (work_closed \/ result_closed) =>
          /\ joined = num_workers
          /\ \A w \in Workers : worker[w].st = "dead"
    /\ finalized => (work_closed /\ result_closed)

C15_Witness == finalized /\ work_closed /\ result_closed /\ joined = num_workers

IsCapacityCall(e) == e.op = "capacity"

\* the output recorder's calls for the non-base iterations, in order
CapacityCalls == SelectSeq(writer_log, IsCapacityCall)

\* instances submitted whose result the orchestrator has not read
Outstanding ==
    InFlight
    + Cardinality({w \in Workers : worker[w].st = "sending"})
    + Len(result_queue)

\* a result read and not yet forwarded
HeldResults == IF pc = "ingest" \/ fault = "process_results" THEN 1 ELSE 0

\* C16: every result read is forwarded once to the generator's ingestion
\* and then once to the output recorder: the ingested results are the
\* submitted instances, one each and in order, every submitted instance is
\* outstanding, held or ingested, and the recorder's calls follow the
\* ingestions one for one. The k-th recorded result has key k, the value of
\* the iteration counter before its increment (the counter is then k + 1):
\* keys are distinct, rise by one, and none is the base solve's 0.
C16_ForwardedOnceAndKeyed ==
    /\ Len(gen_log) <= Len(submitted)
    /\ \A k \in DOMAIN gen_log : gen_log[k] = submitted[k]
    /\ Len(submitted) = Outstanding + HeldResults + Len(gen_log)
    /\ Len(CapacityCalls) = Len(gen_log) - (IF fault = "writer" THEN 1 ELSE 0)
    /\ \A k \in DOMAIN CapacityCalls :
          /\ CapacityCalls[k].inst = gen_log[k]
          /\ CapacityCalls[k].iteration = k
          /\ CapacityCalls[k].iteration # 0
    /\ (CallsOf("results") # {}) => solve_count = Len(CapacityCalls) + 1
    /\ \A k \in CallsOf("results") : writer_log[k].iteration = 0

C16_Witness == pc = "test" /\ Len(CapacityCalls) >= 2 /\ Len(gen_log) >= 2

\* C17: the orchestrator's stopping flags are monotone: a step taken with
\* internal_stop true leaves it true, whatever set it (the iteration limit or
\* a stop from outside), so the stopping state, once true, stays true.
C17_StopFlagMonotone ==
    [][ /\ internal_stop => internal_stop'
        /\ limit_stop => limit_stop'
        /\ ext_stop => ext_stop'
        /\ (limit_stop \/ ext_stop) => internal_stop'
      ]_vars

C17_Witness ==
    /\ pc = "done"
    /\ internal_stop /\ ext_stop /\ ~limit_stop
    /\ Len(gen_log) >= 1

\* the positions of a run that has gone past the base solve without raising
PastBaseSolve == {"relax", "pool_start"} \cup InLoopPcs \cup StopPcs

\* C18: once the base solve has returned, whatever its termination status,
\* its result is recorded under iteration 0 and the status aborts nothing:
\* the run is never stopped at the base solve, and the cost relaxation, the
\* pool start and the first pull of the main loop are taken or not in the
\* same way for either status (the pool start needs only the solver options).
C18_BaseRecordedNoAbort ==
    (base_status # "none") =>
        /\ \E k \in CallsOf("results") : writer_log[k].iteration = 0
        /\ fault # "base_abort"
        /\ pc \in PastBaseSolve \/ (pc = "raised" /\ fault # "base_solve")
        /\ pc = "relax" => ENABLED Relax
        /\ pc = "pool_start" => (ENABLED PoolStart <=> OptionsAssigned(config.solver_name))
        /\ pc = "gen_first" => ENABLED GenFirst

C18_Witness == base_status = "other" /\ pc = "test" /\ Len(gen_log) >= 1

\* C19: the instances put on the work channel are a prefix of the
\* generator's sequence (instance 1, 2, ... in the order pulled, wait markers
\* left out), each put once: the k-th put is the k-th instance pulled, and
\* an instance pulled and not yet put is the one candidate held, so none is
\* skipped (a run ended by the generator raising after a put holds no
\* candidate any more).
C19_SubmittedIsPrefix ==
    /\ \A k \in DOMAIN submitted : submitted[k] = k
    /\ Len(submitted) <= gen_count
    /\ fault # "generator" =>
          /\ gen_count = Len(submitted) + (IF instance.kind = "instance" THEN 1 ELSE 0)
          /\ instance.kind = "instance" => instance.id = gen_count

C19_Witness ==
    /\ pc = "get"
    /\ Len(submitted) >= 2
    /\ instance.kind = "instance"

Solving == {w \in Workers : worker[w].st = "solving"}

\* C20: at every point of the run at most one instance is outstanding
\* (submitted, its result not yet read by the orchestrator), counting the
\* one whose result is read and not yet ingested as well, so at most one of
\* the workers is solving.
C20_OneOutstanding ==
    /\ Outstanding + HeldResults <= 1
    /\ Cardinality(Solving) <= 1

C20_Witness ==
    /\ pc = "get"
    /\ Cardinality(Solving) = 1
    /\ Len(submitted) >= 2
    /\ Outstanding = 1

\* the solver names for which __init__ has a branch
RecognisedSolvers == {name \in SolverNames : OptAssigned(name)}

\* C21: for every solver name the constructor recognises, construction
\* leaves both the solver handle and the solver options assigned, and start,
\* the base solve done and its result recorded, starts the workers: it does
\* not fail at the pool start.
C21_RecognisedSolverStartsPool ==
    (config.solver_name \in RecognisedSolvers /\ pc # "new" /\ fault # "precondition") =>
        /\ opt_defined
        /\ options_defined
        /\ fault # "pool_start"
        /\ pc = "pool_start" => ENABLED PoolStart

====
